---- MODULE Spec2Model ----
(***************************************************************************)
(* Model of the Shopify -> Supabase -> Tally middleware (src/main.py).      *)
(*                                                                         *)
(* State: the two datastore tables (orders, order_items), the webhook      *)
(* deliveries still in flight (pending), and for every worker that runs    *)
(* the POST /shopify/order handler its position in the handler and its     *)
(* locals.  Each datastore call of the handler is one step, so that the    *)
(* steps of two workers can interleave exactly where the datastore sees    *)
(* them.                                                                   *)
(*                                                                         *)
(* Conventions                                                             *)
(*   - text is a sequence of one-character strings, so that strip() and    *)
(*     slicing are computed, not assumed; Python's None is the value None; *)
(*   - a JSON key that may be missing and is read with a default is an     *)
(*     option: <<>> when the key is missing, <<v>> when it is present;     *)
(*   - money is an integer number of thousandths (25.00 is 25000), so that *)
(*     round(x, 2) is a real rounding to a multiple of 10.  Inputs are     *)
(*     chosen so that no rounding falls exactly on a half cent, where the  *)
(*     result of Python's round() depends on the binary float.             *)
(***************************************************************************)
EXTENDS Integers, Sequences, FiniteSets, TLC

\* Longest sequence of webhook deliveries in flight in one behaviour.
MaxPending == 2

\* Workers that can run the handler at the same time.
NumProcs == 2

VARIABLES
    orders,       \* table orders: sequence of rows, row k has primary key k
    order_items,  \* table order_items: sequence of rows in insertion order
    pending,      \* webhook deliveries not yet received, oldest first
    pc,           \* pc[p]: position of worker p in shopify_order
    req,          \* req[p]: the order document worker p is handling (last handled)
    order_id,     \* order_id[p]: local order_id (line 99)
    li_idx,       \* li_idx[p]: index of the next line item of the loop at line 103
    result,       \* result[p]: outcome of worker p's last call
    delivered,    \* history: per source order id, the last finished delivery
    snap,         \* history: the tables as they were when worker p received req[p]
    tally_query,     \* the last request body of POST /tally/orders
    tally_response,  \* the response to it
    sales_data,      \* the last request body of POST /tally/sales
    sales_calls,     \* the payloads that call posted to the storefront, in order
    sales_result     \* the response to it

\* what the two Tally endpoints leave behind
tallyVars == <<tally_query, tally_response, sales_data, sales_calls, sales_result>>

vars == <<orders, order_items, pending, pc, req, order_id, li_idx, result,
          delivered, snap, tallyVars>>

Procs == 1..NumProcs

(***************************************************************************)
(* Python values                                                           *)
(***************************************************************************)
None == <<"None">>

\* truth value of a string-or-None operand of `or`
Truthy(x) == x # None /\ x # <<>>

\* a or b
Or(a, b) == IF Truthy(a) THEN a ELSE b

\* dict.get(key, default) on a key that may be missing
Get(opt, default) == IF opt = <<>> THEN default ELSE opt[1]

IsSpace(c) == c \in {" ", "\t", "\n"}

RECURSIVE LStrip(_)
LStrip(s) == IF s # <<>> /\ IsSpace(Head(s)) THEN LStrip(Tail(s)) ELSE s

RECURSIVE RStrip(_)
RStrip(s) ==
    IF s # <<>> /\ IsSpace(s[Len(s)]) THEN RStrip(SubSeq(s, 1, Len(s) - 1)) ELSE s

\* str.strip()
Strip(s) == RStrip(LStrip(s))

\* s[:n]
Prefix(s, n) == SubSeq(s, 1, IF Len(s) < n THEN Len(s) ELSE n)

\* round(num / den, 2) on thousandths: the nearest multiple of 10, an exact
\* half going to the even cent (den > 0)
RoundDiv2(num, den) ==
    LET unit == 10 * den
        q == num \div unit
        r == num % unit
    IN  IF 2 * r > unit THEN 10 * (q + 1)
        ELSE IF 2 * r < unit THEN 10 * q
        ELSE IF q % 2 = 0 THEN 10 * q ELSE 10 * (q + 1)

\* round(x, 2)
Round2(x) == RoundDiv2(x, 1)

(***************************************************************************)
(* shopify_order: the values derived from the order document               *)
(***************************************************************************)
\* the literal of line 54
UnknownCustomer ==
    <<"U", "n", "k", "n", "o", "w", "n", " ", "C", "u", "s", "t", "o", "m", "e", "r">>

\* lines 44-55
customer_name(order) ==
    LET customer == order.customer
        billing == order.billing_address
        shipping == order.shipping_address
        first_name == customer.first_name
        last_name == customer.last_name
    IN  IF Truthy(first_name) \/ Truthy(last_name)
        THEN Strip(Or(first_name, <<>>) \o <<" ">> \o Or(last_name, <<>>))
        ELSE Or(billing.name, Or(shipping.name, Or(customer.email, UnknownCustomer)))

\* lines 57-61
customer_email(order) ==
    Or(order.customer.email, Or(order.email, order.billing_address.email))

\* lines 63-67
customer_phone(order) ==
    Or(order.customer.phone,
       Or(order.billing_address.phone, order.shipping_address.phone))

\* line 69
total_with_gst(order) == Get(order.total_price, 0)

\* line 70
total_gst(order) == Get(order.total_tax, 0)

\* line 71
total_ex_gst(order) == Round2(total_with_gst(order) - total_gst(order))

\* line 74 raises KeyError: a first shipping line without a price
ShippingRaises(order) ==
    order.shipping_lines # <<>> /\ order.shipping_lines[1].price = <<>>

\* line 74
shipping_charge(order) ==
    IF order.shipping_lines # <<>> THEN order.shipping_lines[1].price[1] ELSE 0

\* lines 76-78 (the first tax line of the first shipping line carries a price)
shipping_tax(order) ==
    IF order.shipping_lines # <<>> /\ order.shipping_lines[1].tax_lines # <<>>
    THEN order.shipping_lines[1].tax_lines[1].price[1]
    ELSE 0

RECURSIVE Digits(_)
Digits(n) ==
    LET d == <<"0", "1", "2", "3", "4", "5", "6", "7", "8", "9">>
    IN  IF n < 10 THEN <<d[n + 1]>> ELSE Digits(n \div 10) \o <<d[(n % 10) + 1]>>

\* line 83: str(order.get("order_number")); a missing number prints as None
order_number(order) ==
    IF order.order_number = <<>> THEN <<"N", "o", "n", "e">>
    ELSE Digits(order.order_number[1])

\* line 84 raises TypeError: None[:10]
UpsertRaises(order) == order.created_at = None

\* lines 81-95: the row handed to upsert (the primary key is the datastore's)
OrderRow(order) ==
    [shopify_order_id |-> order.id,
     order_number |-> order_number(order),
     voucher_date |-> Prefix(order.created_at, 10),
     customer_name |-> customer_name(order),
     customer_email |-> customer_email(order),
     customer_phone |-> customer_phone(order),
     total_amount |-> total_with_gst(order),
     total_amount_ex_gst |-> total_ex_gst(order),
     shipping_charge |-> shipping_charge(order),
     shipping_gst |-> shipping_tax(order),
     currency |-> Get(order.currency, "INR"),
     source |-> "Shopify",
     raw_order |-> order]

\* lines 109-110: the first tax line, or {} when there is none
FirstTax(li) ==
    IF li.tax_lines # <<>> THEN li.tax_lines[1] ELSE [title |-> <<>>, price |-> <<>>]

\* line 104
Qty(li) == Get(li.quantity, 0)

\* the line amount without its rounding
amount_unrounded(li) == Get(li.price, 0) * Qty(li)

\* lines 106-107
amount_with_gst(li) == Round2(Get(li.price, 0) * Qty(li))

\* line 112
gst_amount(li) == Get(FirstTax(li).price, 0)

\* line 113; <<>> stands for the None of a tax line without a title
gst_type(li) == FirstTax(li).title

\* line 115
amount_ex_gst(li) == Round2(amount_with_gst(li) - gst_amount(li))

\* every tax line that is not IGST counted as CGST
cgst_unless_igst(li) == IF gst_type(li) # <<"IGST">> THEN gst_amount(li) ELSE 0

\* lines 117-123
cgst(li) == IF gst_type(li) = <<"CGST">> THEN gst_amount(li) ELSE 0

sgst(li) == IF gst_type(li) = <<"SGST">> THEN gst_amount(li) ELSE 0

igst(li) == IF gst_type(li) = <<"IGST">> THEN gst_amount(li) ELSE 0

\* line 129 raises ZeroDivisionError
ItemRaises(li) == Qty(li) = 0

\* line 129
rate(li) == RoundDiv2(amount_ex_gst(li), Qty(li))

\* lines 125-137: the row inserted for line item li of order
ItemRow(order, oid, li) ==
    [order_id |-> oid,
     item_name |-> li.title,
     quantity |-> Qty(li),
     rate |-> rate(li),
     amount |-> amount_with_gst(li),
     amount_ex_gst |-> amount_ex_gst(li),
     cgst |-> cgst(li),
     sgst |-> sgst(li),
     igst |-> igst(li),
     shipping_charge |-> shipping_charge(order),
     shipping_gst |-> shipping_tax(order)]

(***************************************************************************)
(* The datastore                                                           *)
(***************************************************************************)
\* primary keys of the rows whose shopify_order_id is sid
RowsOf(tbl, sid) == {k \in 1..Len(tbl) : tbl[k].shopify_order_id = sid}

\* an upsert that takes any stored row as the conflicting one
AnyRowKey(tbl, row) ==
    IF tbl # <<>> THEN CHOOSE k \in 1..Len(tbl) : TRUE ELSE Len(tbl) + 1

\* upsert(row, on_conflict="shopify_order_id"): the row with that source id
\* is overwritten in place and keeps its primary key, else a row is added
UpsertKey(tbl, row) ==
    IF RowsOf(tbl, row.shopify_order_id) # {}
    THEN CHOOSE k \in RowsOf(tbl, row.shopify_order_id) : TRUE
    ELSE Len(tbl) + 1

UpsertTable(tbl, row) ==
    LET k == UpsertKey(tbl, row)
    IN  IF k <= Len(tbl) THEN [tbl EXCEPT ![k] = row] ELSE Append(tbl, row)

\* a delete that removes nothing
DeleteNothing(tbl, oid) == tbl

\* delete().eq("order_id", oid)
DeleteWhere(tbl, oid) ==
    LET Keep(r) == r.order_id # oid IN SelectSeq(tbl, Keep)

\* the embedded order_items(*) of one order, in table order
ItemsOf(tbl, oid) ==
    LET Mine(r) == r.order_id = oid IN SelectSeq(tbl, Mine)

(***************************************************************************)
(* Order documents                                                         *)
(***************************************************************************)
\* `order.get("customer") or {}`: a missing or null sub-document reads as the
\* empty dict, on which every .get() gives None
EmptyCustomer == [first_name |-> None, last_name |-> None, email |-> None, phone |-> None]

EmptyAddress ==
    [name |-> None, first_name |-> None, last_name |-> None, email |-> None,
     phone |-> None]

Stamp1 ==
    <<"2", "0", "2", "5", "-", "0", "1", "-", "0", "5", "T", "1", "0", ":", "0", "0">>

Stamp2 ==
    <<"2", "0", "2", "5", "-", "0", "1", "-", "0", "7", "T", "2", "3", ":", "5", "9">>

Shirt ==
    [title |-> "Shirt", quantity |-> <<2>>, price |-> <<25000>>,
     tax_lines |-> <<[title |-> <<"IGST">>, price |-> <<7620>>]>>]

Cap == [title |-> "Cap", quantity |-> <<1>>, price |-> <<10004>>, tax_lines |-> <<>>]

\* a line item without a quantity, one with quantity 0, one without a price
NoQty == [title |-> "Mug", quantity |-> <<>>, price |-> <<5000>>, tax_lines |-> <<>>]

ZeroQty == [title |-> "Mug", quantity |-> <<0>>, price |-> <<5000>>, tax_lines |-> <<>>]

NoPrice == [title |-> "Pen", quantity |-> <<3>>, price |-> <<>>, tax_lines |-> <<>>]

Asha == [first_name |-> <<"A">>, last_name |-> <<"R">>, email |-> <<"a", "@", "x">>,
         phone |-> None]

BaseOrder ==
    [id |-> 1, order_number |-> <<1001>>, created_at |-> Stamp1,
     customer |-> Asha, email |-> None, phone |-> None,
     billing_address |-> EmptyAddress, shipping_address |-> EmptyAddress,
     note_attributes |-> <<>>,
     total_price |-> <<100000>>, total_tax |-> <<18000>>,
     shipping_lines |-> <<>>, line_items |-> <<Shirt, Cap>>, currency |-> <<>>]

OrderIds == {1, 2}

\* well-formed deliveries: two source ids, each in two versions that differ in
\* derived fields and in line items
GoodDocs ==
    {[BaseOrder EXCEPT !.id = i, !.order_number = <<1000 + i>>] : i \in OrderIds}
    \cup
    {[BaseOrder EXCEPT !.id = i, !.order_number = <<1000 + i>>, !.created_at = Stamp2,
                       !.total_price = <<10004>>, !.total_tax = <<>>,
                       !.line_items = <<Cap>>,
                       !.shipping_lines =
                           <<[price |-> <<4000>>,
                              tax_lines |-> <<[price |-> <<720>>]>>]>>]
       : i \in OrderIds}

\* documents that lack something the handler reads
PartialDocs ==
    {[BaseOrder EXCEPT !.created_at = None],
     [BaseOrder EXCEPT !.customer = EmptyCustomer],
     [BaseOrder EXCEPT !.shipping_lines = <<[price |-> <<>>, tax_lines |-> <<>>]>>],
     [BaseOrder EXCEPT !.line_items = <<NoPrice>>],
     [BaseOrder EXCEPT !.line_items = <<Shirt, NoQty>>],
     [BaseOrder EXCEPT !.line_items = <<ZeroQty>>]}

SeqDocs == GoodDocs \cup PartialDocs

ConcDocs == GoodDocs \cup {[BaseOrder EXCEPT !.line_items = <<Shirt, NoQty>>]}

\* customer sub-documents: a first name that is missing, blank or padded, a
\* last name, an email and a phone that are present or not
Customers ==
    {[first_name |-> f, last_name |-> l, email |-> e, phone |-> ph] :
        f \in {None, <<" ">>, <<"A", " ">>}, l \in {None, <<"R">>},
        e \in {None, <<"a", "@", "x">>}, ph \in {None, <<"1", "1">>}}

\* billing addresses: no name, the full name together with its parts, only the
\* given and family name, only a padded full name
BillingAddresses ==
    {[name |-> n[1], first_name |-> n[2], last_name |-> n[3], email |-> e, phone |-> ph] :
        n \in {<<None, None, None>>,
               <<<<"G", " ", "F">>, <<"G">>, <<"F">>>>,
               <<None, <<"G">>, <<"F">>>>,
               <<<<" ", "B">>, None, None>>},
        e \in {None, <<"b", "@", "x">>}, ph \in {None, <<"2", "2">>}}

ShippingAddresses ==
    {[EmptyAddress EXCEPT !.name = n, !.phone = ph] :
        n \in {None, <<"S">>}, ph \in {None, <<"3", "3">>}}

NameAttribute == [name |-> "name", value |-> <<"N">>]

\* documents that differ in every place a name, an email or a phone can be
IdentityDocs ==
    {[BaseOrder EXCEPT !.customer = c, !.billing_address = b,
                       !.shipping_address = s, !.email = e, !.phone = ph,
                       !.note_attributes = a, !.line_items = <<Cap>>] :
        c \in Customers, b \in BillingAddresses, s \in ShippingAddresses,
        e \in {None, <<"o", "@", "x">>}, ph \in {None, <<"4", "4">>},
        a \in {<<>>, <<NameAttribute>>}}

\* line items that differ in quantity, price and tax lines: no tax line, one
\* of each recognised title, an unrecognised title, no title, two tax lines
TaxLineLists ==
    {<<>>}
    \cup {<<[title |-> t, price |-> <<4500>>]>> :
            t \in {<<"IGST">>, <<"CGST">>, <<"SGST">>, <<"GST">>, <<>>}}
    \cup {<<[title |-> <<"CGST">>, price |-> <<2250>>],
            [title |-> <<"SGST">>, price |-> <<2250>>]>>,
          <<[title |-> <<"IGST">>, price |-> <<>>]>>}

MoneyItems ==
    {[title |-> "Shirt", quantity |-> <<q>>, price |-> pr, tax_lines |-> t] :
        q \in 1..3, pr \in {<<>>, <<25000>>, <<10002>>}, t \in TaxLineLists}

\* documents that differ in every amount the handler stores
MoneyDocs ==
    {[BaseOrder EXCEPT !.total_price = tp, !.total_tax = tt, !.shipping_lines = sh,
                       !.line_items = <<li>>] :
        tp \in {<<>>, <<100000>>, <<100004>>}, tt \in {<<>>, <<18000>>},
        sh \in {<<>>,
                <<[price |-> <<4000>>, tax_lines |-> <<>>]>>,
                <<[price |-> <<4004>>, tax_lines |-> <<[price |-> <<720>>]>>]>>},
        li \in MoneyItems}

\* the sequences of at most n deliveries drawn from D
Queues(D, n) == UNION {[1..k -> D] : k \in 1..n}

(***************************************************************************)
(* POST /shopify/order, one step per datastore call                        *)
(***************************************************************************)
\* the handler ends: outcome is "stored" (line 139) or "error" (an exception)
Finish(p, outcome) ==
    /\ pc' = [pc EXCEPT ![p] = "idle"]
    /\ result' = [result EXCEPT ![p] = outcome]

Record(order, outcome) ==
    delivered' = [delivered EXCEPT ![order.id] = <<[order |-> order, outcome |-> outcome]>>]

\* lines 38-78: the request body is read and the order-level values derived
Receive(p) ==
    /\ pc[p] = "idle"
    /\ pending # <<>>
    /\ LET order == Head(pending) IN
        /\ req' = [req EXCEPT ![p] = order]
        /\ pending' = Tail(pending)
        /\ snap' = [snap EXCEPT ![p] = [orders |-> orders, order_items |-> order_items]]
        /\ order_id' = [order_id EXCEPT ![p] = 0]
        /\ li_idx' = [li_idx EXCEPT ![p] = 1]
        /\ IF ShippingRaises(order)
           THEN Finish(p, "error") /\ Record(order, "error")
           ELSE /\ pc' = [pc EXCEPT ![p] = "upsert"]
                /\ result' = [result EXCEPT ![p] = "none"]
                /\ UNCHANGED delivered
    /\ UNCHANGED <<orders, order_items, tallyVars>>

\* lines 80-99: upsert of the order row, order_id = res.data[0]["id"]
Upsert(p) ==
    /\ pc[p] = "upsert"
    /\ IF UpsertRaises(req[p])
       THEN /\ Finish(p, "error") /\ Record(req[p], "error")
            /\ UNCHANGED <<orders, order_id>>
       ELSE /\ orders' = UpsertTable(orders, OrderRow(req[p]))
            /\ order_id' = [order_id EXCEPT ![p] = UpsertKey(orders, OrderRow(req[p]))]
            /\ pc' = [pc EXCEPT ![p] = "delete"]
            /\ UNCHANGED <<result, delivered>>
    /\ UNCHANGED <<order_items, pending, req, li_idx, snap, tallyVars>>

\* line 101: delete of the order's items
DeleteItems(p) ==
    /\ pc[p] = "delete"
    /\ order_items' = DeleteWhere(order_items, order_id[p])
    /\ pc' = [pc EXCEPT ![p] = "insert"]
    /\ UNCHANGED <<orders, pending, req, order_id, li_idx, result, delivered, snap,
                   tallyVars>>

\* lines 103-137: one iteration of the loop, the insert of one item row
InsertItem(p) ==
    /\ pc[p] = "insert"
    /\ li_idx[p] <= Len(req[p].line_items)
    /\ LET li == req[p].line_items[li_idx[p]] IN
        IF ItemRaises(li)
        THEN /\ Finish(p, "error") /\ Record(req[p], "error")
             /\ UNCHANGED <<order_items, li_idx>>
        ELSE /\ order_items' = Append(order_items, ItemRow(req[p], order_id[p], li))
             /\ li_idx' = [li_idx EXCEPT ![p] = li_idx[p] + 1]
             /\ UNCHANGED <<pc, result, delivered>>
    /\ UNCHANGED <<orders, pending, req, order_id, snap, tallyVars>>

\* line 139: the loop is over, the acknowledgement is returned
Return(p) ==
    /\ pc[p] = "insert"
    /\ li_idx[p] > Len(req[p].line_items)
    /\ Finish(p, "stored") /\ Record(req[p], "stored")
    /\ UNCHANGED <<orders, order_items, pending, req, order_id, li_idx, snap,
                   tallyVars>>

shopify_order(p) ==
    \/ Receive(p)
    \/ Upsert(p)
    \/ DeleteItems(p)
    \/ InsertItem(p)
    \/ Return(p)

(***************************************************************************)
(* POST /tally/orders: one select, then the projection to vouchers         *)
(***************************************************************************)
\* the characters of a date or timestamp, in their collating order
DateChars == <<"-", "0", "1", "2", "3", "4", "5", "6", "7", "8", "9", ":", "T">>

CharRank(c) == CHOOSE i \in 1..Len(DateChars) : DateChars[i] = c

\* a <= b for two texts, as the datastore compares voucher_date with a bound
RECURSIVE TextLeq(_, _)
TextLeq(a, b) ==
    IF a = <<>> THEN TRUE
    ELSE IF b = <<>> THEN FALSE
    ELSE IF Head(a) = Head(b) THEN TextLeq(Tail(a), Tail(b))
    ELSE CharRank(Head(a)) < CharRank(Head(b))

\* the range with its bounds left out
StrictlyInRange(d, from_date, to_date) ==
    /\ TextLeq(from_date, d) /\ from_date # d
    /\ TextLeq(d, to_date) /\ to_date # d

\* lines 157-158: .gte("voucher_date", from_date).lte("voucher_date", to_date)
InRange(d, from_date, to_date) == TextLeq(from_date, d) /\ TextLeq(d, to_date)

\* lines 155-160: the primary keys of the selected orders in an order the
\* datastore may return them in: ascending voucher_date, ties in any order
Selections(tbl, from_date, to_date) ==
    LET keys == {k \in 1..Len(tbl) : InRange(tbl[k].voucher_date, from_date, to_date)}
    IN  {sel \in [1..Cardinality(keys) -> keys] :
            /\ \A i, j \in DOMAIN sel : i # j => sel[i] # sel[j]
            /\ \A i, j \in DOMAIN sel :
                   i < j => TextLeq(tbl[sel[i]].voucher_date, tbl[sel[j]].voucher_date)}

\* the running totals of lines 167-179: the sum of a sequence of numbers
RECURSIVE SumOf(_)
SumOf(nums) == IF nums = <<>> THEN 0 ELSE Head(nums) + SumOf(Tail(nums))

\* lines 181-192
VoucherItem(i) ==
    [item_name |-> i.item_name,
     quantity |-> i.quantity,
     rate |-> i.rate,
     amount |-> i.amount_ex_gst,
     amount_with_gst |-> i.amount,
     gst |-> [cgst |-> i.cgst, sgst |-> i.sgst, igst |-> i.igst]]

\* lines 164-224: the voucher of order row o with its embedded item rows
Voucher(o, rows) ==
    LET ex_gst == SumOf([j \in 1..Len(rows) |-> rows[j].amount_ex_gst])
        with_gst == SumOf([j \in 1..Len(rows) |-> rows[j].amount])
        gst == SumOf([j \in 1..Len(rows) |-> rows[j].cgst + rows[j].sgst + rows[j].igst])
        shipping == o.shipping_charge
        shipping_gst == o.shipping_gst
    IN  [voucher_type |-> "Sales",
         voucher_number |-> o.order_number,
         voucher_date |-> o.voucher_date,
         customer |-> [name |-> o.customer_name, email |-> o.customer_email,
                       phone |-> o.customer_phone],
         items |-> [j \in 1..Len(rows) |-> VoucherItem(rows[j])],
         total_gst |-> Round2(gst + shipping_gst),
         shipping_charge |-> Round2(shipping),
         shipping_gst |-> Round2(shipping_gst),
         total_amount |-> Round2(ex_gst),
         total_amount_with_gst |-> Round2(with_gst),
         grand_total |-> Round2(with_gst + shipping),
         currency |-> o.currency,
         source |-> o.source,
         shopify_order_id |-> o.shopify_order_id]

\* lines 145-226: body is the request, a missing date being None
tally_orders_post(body) ==
    /\ tally_query' = body
    /\ IF ~Truthy(body.from_date) \/ ~Truthy(body.to_date)
       THEN tally_response' = [status |-> 400, orders |-> <<>>]
       ELSE \E sel \in Selections(orders, body.from_date, body.to_date) :
               tally_response' =
                   [status |-> 200,
                    orders |-> [n \in DOMAIN sel |->
                                   Voucher(orders[sel[n]],
                                           ItemsOf(order_items, sel[n]))]]
    /\ UNCHANGED <<orders, order_items, pending, pc, req, order_id, li_idx, result,
                   delivered, snap, sales_data, sales_calls, sales_result>>

(***************************************************************************)
(* POST /tally/sales: the voucher is mapped and posted to the storefront   *)
(*                                                                         *)
(* A request body is a JSON object whose keys may be missing: customer,    *)
(* its name and email, items, and each item's product_name, item_name,     *)
(* quantity and rate are options.                                          *)
(***************************************************************************)
\* the {} of data.get("customer", {})
NoSalesCustomer == [name |-> <<>>, email |-> <<>>]

\* a voucher of POST /tally/orders as the JSON body of a request: every key
\* the handler reads is present, with the voucher's value
AsRequest(voucher) ==
    [customer |-> <<[name |-> <<voucher.customer.name>>,
                     email |-> <<voucher.customer.email>>]>>,
     items |-> <<[j \in 1..Len(voucher.items) |->
                    [product_name |-> <<>>,
                     item_name |-> <<voucher.items[j].item_name>>,
                     quantity |-> <<voucher.items[j].quantity>>,
                     rate |-> <<voucher.items[j].rate>>]]>>]

\* line 245 raises AttributeError: the name is null
NameRaises(data) == Get(data.customer, NoSalesCustomer).name = <<None>>

\* line 245
full_name(data) == Strip(Get(Get(data.customer, NoSalesCustomer).name, <<>>))

\* the index of the first " " of s, 0 when it has none
FirstSpace(s) ==
    IF \E i \in 1..Len(s) : s[i] = " "
    THEN CHOOSE i \in 1..Len(s) : s[i] = " " /\ \A j \in 1..(i - 1) : s[j] # " "
    ELSE 0

\* line 246: full_name.split(" ", 1)
name_parts(s) ==
    IF FirstSpace(s) = 0 THEN <<s>>
    ELSE <<SubSeq(s, 1, FirstSpace(s) - 1), SubSeq(s, FirstSpace(s) + 1, Len(s))>>

\* line 248 (the list is never empty)
first_name(data) == name_parts(full_name(data))[1]

\* line 249
last_name(data) ==
    IF Len(name_parts(full_name(data))) > 1 THEN name_parts(full_name(data))[2] ELSE <<>>

\* line 252
SalesItems(data) == Get(data.items, <<>>)

\* lines 257-258 raise KeyError: an item without quantity or without rate
ItemsRaise(data) ==
    \E j \in 1..Len(SalesItems(data)) :
        SalesItems(data)[j].quantity = <<>> \/ SalesItems(data)[j].rate = <<>>

\* line 263 raises KeyError: no customer block
CustomerRaises(data) == data.customer = <<>>

\* the handler ends in an exception before it posts anything
SalesRaises(data) == NameRaises(data) \/ ItemsRaise(data) \/ CustomerRaises(data)

\* the unit price replaced by the line amount
line_item_of_amount(item) ==
    [title |-> IF item.product_name # <<>> THEN item.product_name ELSE item.item_name,
     quantity |-> item.quantity[1],
     price |-> Round2(item.rate[1] * item.quantity[1])]

\* lines 253-259; the title is an option, <<>> standing for None
line_item(item) ==
    [title |-> IF item.product_name # <<>> THEN item.product_name ELSE item.item_name,
     quantity |-> item.quantity[1],
     price |-> Round2(item.rate[1])]

\* lines 261-273
SalesPayload(data) ==
    [order |->
        [email |-> Get(data.customer[1].email, None),
         customer |-> [first_name |-> first_name(data),
                       last_name |-> last_name(data),
                       email |-> Get(data.customer[1].email, None)],
         line_items |-> [j \in 1..Len(SalesItems(data)) |-> line_item(SalesItems(data)[j])],
         financial_status |-> "paid",
         currency |-> "INR"]]

\* every 2xx status taken as success
StatusIs2xx(status) == status \in 200..299

\* line 277
StatusOk(status) == status \in {200, 201}

\* lines 230-283: data is the request body, response what the storefront
\* answers to the one POST of line 275
tally_sales(data, response) ==
    /\ sales_data' = data
    /\ IF SalesRaises(data)
       THEN /\ sales_calls' = <<>>
            /\ sales_result' = [status |-> 500, detail |-> "Internal Server Error",
                                shopify_order_id |-> 0]
       ELSE /\ sales_calls' = <<[payload |-> SalesPayload(data), response |-> response]>>
            /\ sales_result' =
                   IF StatusOk(response.status)
                   THEN [status |-> 200, detail |-> "", shopify_order_id |-> response.id]
                   ELSE [status |-> 500, detail |-> response.text, shopify_order_id |-> 0]
    /\ UNCHANGED <<orders, order_items, pending, pc, req, order_id, li_idx, result,
                   delivered, snap, tally_query, tally_response>>

\* what the storefront may answer: success, other 2xx, client and server errors
StorefrontResponses ==
    {[status |-> st, text |-> a.text, id |-> a.id] :
        st \in {200, 201, 202, 422, 500},
        a \in {[text |-> "body A", id |-> 9001], [text |-> "body B", id |-> 9002]}}

\* customer names with no, one, two and other whitespace
SalesNames ==
    {<<>>, <<"A">>, <<"A", " ", "R">>, <<"A", " ", " ", "R">>, <<"A", "\t", "R">>,
     <<" ", "A", " ", "R", " ">>, <<"A", " ", "R", " ", "S">>}

SalesItemA ==
    [product_name |-> <<>>, item_name |-> <<"Shirt">>, quantity |-> <<2>>,
     rate |-> <<21190>>]

SalesItemB ==
    [product_name |-> <<"Cap">>, item_name |-> <<>>, quantity |-> <<1>>,
     rate |-> <<10004>>]

\* request bodies: with and without customer block, name and email, without
\* items, with none, and with items that lack quantity or rate
SalesBodies ==
    {[customer |-> c, items |-> its] :
        c \in {<<>>, <<[name |-> <<<<"A", " ", "R">>>>, email |-> <<>>]>>}
              \cup {<<[name |-> n, email |-> <<<<"a", "@", "x">>>>]>> :
                       n \in {<<>>, <<None>>} \cup {<<x>> : x \in SalesNames}},
        its \in {<<>>, <<<<>>>>, <<<<SalesItemA>>>>, <<<<SalesItemA, SalesItemB>>>>,
                 <<<<[SalesItemA EXCEPT !.quantity = <<>>]>>>>,
                 <<<<SalesItemA, [SalesItemB EXCEPT !.rate = <<>>]>>>>}}

(***************************************************************************)
(* Specifications                                                          *)
(***************************************************************************)
\* empty tables, every worker idle, the deliveries of D in flight
InitFrom(queues) ==
    /\ orders = <<>>
    /\ order_items = <<>>
    /\ pending \in queues
    /\ pc = [p \in Procs |-> "idle"]
    /\ req = [p \in Procs |-> BaseOrder]
    /\ order_id = [p \in Procs |-> 0]
    /\ li_idx = [p \in Procs |-> 1]
    /\ result = [p \in Procs |-> "none"]
    /\ delivered = [i \in OrderIds |-> <<>>]
    /\ snap = [p \in Procs |-> [orders |-> <<>>, order_items |-> <<>>]]
    /\ tally_query = [from_date |-> None, to_date |-> None]
    /\ tally_response = [status |-> 0, orders |-> <<>>]
    /\ sales_data = [customer |-> <<>>, items |-> <<>>]
    /\ sales_calls = <<>>
    /\ sales_result = [status |-> 0, detail |-> "", shopify_order_id |-> 0]

InitWith(D, n) == InitFrom(Queues(D, n))

\* the workers handle deliveries concurrently
Init == InitWith(ConcDocs, MaxPending)

Next == \E p \in Procs : shopify_order(p)

Spec == Init /\ [][Next]_vars

\* one worker handles the deliveries one after the other
InitSeq == InitWith(SeqDocs, MaxPending + 1)

NextSeq == shopify_order(1)

SpecSeq == InitSeq /\ [][NextSeq]_vars

\* one delivery of a document of IdentityDocs
InitIdentity == InitWith(IdentityDocs, 1)

SpecIdentity == InitIdentity /\ [][NextSeq]_vars

\* one delivery of a document of MoneyDocs
InitMoney == InitWith(MoneyDocs, 1)

SpecMoney == InitMoney /\ [][NextSeq]_vars

\* no delivery; vouchers of SalesBodies are pushed, the storefront answering
\* with any of StorefrontResponses
InitSales == InitFrom({<<>>})

NextSales ==
    \E data \in SalesBodies, response \in StorefrontResponses : tally_sales(data, response)

SpecSales == InitSales /\ [][NextSales]_vars

\* one delivery per source id: id 1 with two items, id 2 with one
FrameDocs == {d \in GoodDocs : Len(d.line_items) = 2 <=> d.id = 1}

\* the workers handle deliveries of FrameDocs concurrently
InitFrame == InitWith(FrameDocs, MaxPending)

SpecFrame == InitFrame /\ [][Next]_vars

\* query dates: the days of Stamp1 and Stamp2 and the day between them
Day5 == Prefix(Stamp1, 10)

Day6 == <<"2", "0", "2", "5", "-", "0", "1", "-", "0", "6">>

Day7 == Prefix(Stamp2, 10)

\* request bodies of POST /tally/orders: ranges that end on a stored date, at
\* the day between or on both, and a body that lacks either date
TallyBodies ==
    {[from_date |-> f, to_date |-> t] : f \in {Day5, Day6}, t \in {Day6, Day7}}
    \cup {[from_date |-> None, to_date |-> Day7], [from_date |-> Day5, to_date |-> None]}

\* deliveries of two source ids, each dated Stamp1 or Stamp2
TallyDocs ==
    {[BaseOrder EXCEPT !.id = i, !.order_number = <<1000 + i>>, !.created_at = s,
                       !.line_items = IF i = 1 THEN <<Shirt, Cap>> ELSE <<Cap>>]
       : i \in OrderIds, s \in {Stamp1, Stamp2}}

\* the storefront accepts the order
Created == [status |-> 201, text |-> "body A", id |-> 9001]

\* one worker stores deliveries; the ledger queries a range of dates at any
\* moment and pushes a voucher of the last answer back as a sale
InitTally == InitWith(TallyDocs, MaxPending)

NextTally ==
    \/ shopify_order(1)
    \/ \E body \in TallyBodies : tally_orders_post(body)
    \/ \E n \in DOMAIN tally_response.orders :
          tally_sales(AsRequest(tally_response.orders[n]), Created)

SpecTally == InitTally /\ [][NextTally]_vars

(***************************************************************************)
(* Properties of the inbound persistence                                   *)
(***************************************************************************)
AllIdle == \A p \in Procs : pc[p] = "idle"

\* the item rows a complete delivery of order leaves for the order row k
ExpectedItems(order, k) ==
    [i \in 1..Len(order.line_items) |-> ItemRow(order, k, order.line_items[i])]

\* the order row of source id sid reflects exactly the delivery of order
Reflects(sid, order) ==
    /\ Cardinality(RowsOf(orders, sid)) = 1
    /\ \A k \in RowsOf(orders, sid) :
           /\ orders[k] = OrderRow(order)
           /\ orders[k].raw_order = order
           /\ ItemsOf(order_items, k) = ExpectedItems(order, k)

\* C1: between deliveries handled one after the other, there is at most one
\* order row per source order id, and every id whose latest delivery was
\* acknowledged has exactly one row, which carries the derived fields and the
\* raw payload of that delivery and whose items are exactly that delivery's
\* line items, in order.
C1_UpsertIdempotent ==
    AllIdle =>
        \A sid \in OrderIds :
            /\ Cardinality(RowsOf(orders, sid)) <= 1
            /\ (delivered[sid] # <<>> /\ delivered[sid][1].outcome = "stored")
                   => Reflects(sid, delivered[sid][1].order)

\* C1 witness: a delivery with one line item was acknowledged for an id whose
\* stored order had two items and other derived fields before it.
C1_Witness ==
    /\ AllIdle
    /\ result[1] = "stored"
    /\ Len(req[1].line_items) = 1
    /\ \E k \in RowsOf(snap[1].orders, req[1].id) :
           /\ Len(ItemsOf(snap[1].order_items, k)) = 2
           /\ snap[1].orders[k] # OrderRow(req[1])
    /\ Reflects(req[1].id, req[1])

\* C2: once two workers have both acknowledged a delivery for the same source
\* id, there is one order row for the id and its items are the line items of
\* one of the two deliveries.
C2_ConcurrentSameId ==
    (/\ AllIdle
     /\ pending = <<>>
     /\ result[1] = "stored" /\ result[2] = "stored"
     /\ req[1].id = req[2].id)
    => /\ Cardinality(RowsOf(orders, req[1].id)) = 1
       /\ \A k \in RowsOf(orders, req[1].id) :
              ItemsOf(order_items, k) \in
                  {ExpectedItems(req[1], k), ExpectedItems(req[2], k)}

\* C3: no call of the handler ends in an error.
C3_AlwaysAcknowledged == \A p \in Procs : result[p] # "error"

\* a line item without a price, without a quantity, or with quantity 0
Lacking(li) == li.price = <<>> \/ li.quantity = <<>> \/ Qty(li) = 0

\* C4: a finished delivery of an otherwise complete document that has a line
\* item without price or quantity (or with quantity 0) was acknowledged, and
\* each such item is stored with the missing value as zero.
C4_LackingItemStored ==
    \A p \in Procs :
        (/\ pc[p] = "idle" /\ result[p] # "none"
         /\ ~ShippingRaises(req[p]) /\ ~UpsertRaises(req[p])
         /\ \E i \in 1..Len(req[p].line_items) : Lacking(req[p].line_items[i]))
        => /\ result[p] = "stored"
           /\ LET rows == ItemsOf(order_items, order_id[p]) IN
               /\ Len(rows) = Len(req[p].line_items)
               /\ \A i \in 1..Len(rows) :
                      /\ rows[i].quantity = Get(req[p].line_items[i].quantity, 0)
                      /\ req[p].line_items[i].price = <<>> => rows[i].amount = 0

\* C5: when a call ends in an error, both tables are as they were when the
\* call was received.
C5_FailedDeliveryLost ==
    \A p \in Procs :
        (pc[p] = "idle" /\ result[p] = "error")
        => orders = snap[p].orders /\ order_items = snap[p].order_items

(***************************************************************************)
(* Properties of the customer identity resolution                          *)
(***************************************************************************)
\* given and family name, space-joined and trimmed
JoinedName(first, last) == Strip(Or(first, <<>>) \o <<" ">> \o Or(last, <<>>))

\* a value a tier can resolve to: present and not blank
Usable(x) == Truthy(x) /\ Strip(x) # <<>>

\* the name fields of an address: given and family name when it has them,
\* else its full name
AddressName(a) ==
    IF Truthy(a.first_name) \/ Truthy(a.last_name)
    THEN JoinedName(a.first_name, a.last_name)
    ELSE a.name

\* the free-text attribute called name
AttributeName(order) ==
    IF \E i \in 1..Len(order.note_attributes) : order.note_attributes[i].name = "name"
    THEN order.note_attributes[
             CHOOSE i \in 1..Len(order.note_attributes) :
                 order.note_attributes[i].name = "name"].value
    ELSE None

RECURSIVE FirstUsable(_, _)
FirstUsable(tiers, fallback) ==
    IF tiers = <<>> THEN fallback
    ELSE IF Usable(Head(tiers)) THEN Head(tiers)
    ELSE FirstUsable(Tail(tiers), fallback)

\* the six tiers of the stated priority order
ClaimedName(order) ==
    FirstUsable(<<JoinedName(order.customer.first_name, order.customer.last_name),
                  AddressName(order.billing_address),
                  AddressName(order.shipping_address),
                  AttributeName(order),
                  Or(order.customer.email, Or(order.email, order.billing_address.email))>>,
                UnknownCustomer)

\* the only name-bearing data of the order is its billing address
OnlyBillingName(order) ==
    /\ ~Truthy(order.customer.first_name) /\ ~Truthy(order.customer.last_name)
    /\ ~Truthy(order.customer.email) /\ ~Truthy(order.email)
    /\ ~Truthy(order.billing_address.email)
    /\ ~Truthy(AddressName(order.shipping_address))
    /\ ~Truthy(AttributeName(order))
    /\ Truthy(order.billing_address.first_name) \/ Truthy(order.billing_address.last_name)

\* C6: every stored customer name is the value of the first tier, in the
\* stated priority order, that yields a usable value; an order whose only
\* name-bearing data is a billing address has the trimmed concatenation of the
\* billing given and family name.
C6_NamePriority ==
    \A k \in 1..Len(orders) :
        LET order == orders[k].raw_order IN
        /\ orders[k].customer_name = ClaimedName(order)
        /\ OnlyBillingName(order) =>
               orders[k].customer_name =
                   JoinedName(order.billing_address.first_name,
                              order.billing_address.last_name)

\* no field of the order carries a name, an email or a phone
NoIdentity(order) ==
    /\ order.customer = EmptyCustomer
    /\ order.billing_address = EmptyAddress
    /\ order.shipping_address = EmptyAddress
    /\ order.email = None /\ order.phone = None
    /\ order.note_attributes = <<>>

\* the account name is given but empty after trimming
BlankAccountName(order) ==
    /\ Truthy(order.customer.first_name) \/ Truthy(order.customer.last_name)
    /\ JoinedName(order.customer.first_name, order.customer.last_name) = <<>>

\* C7: every stored customer name is neither null nor empty; an account name
\* that is empty after trimming gives way to the next source; an order with
\* no source at all has the fallback literal and a null email and phone.
C7_NameNeverEmpty ==
    \A k \in 1..Len(orders) :
        LET order == orders[k].raw_order IN
        /\ orders[k].customer_name # None
        /\ orders[k].customer_name # <<>>
        /\ (BlankAccountName(order) /\ Truthy(order.billing_address.name))
               => orders[k].customer_name = order.billing_address.name
        /\ NoIdentity(order) =>
               /\ orders[k].customer_name = UnknownCustomer
               /\ orders[k].customer_email = None
               /\ orders[k].customer_phone = None

\* account, then order level, then billing or shipping address
ClaimedEmail(order) ==
    Or(order.customer.email,
       Or(order.email, Or(order.billing_address.email, order.shipping_address.email)))

ClaimedPhone(order) ==
    Or(order.customer.phone,
       Or(order.phone, Or(order.billing_address.phone, order.shipping_address.phone)))

\* C8: every stored email and phone is the first present value of its own
\* chain (account, order level, billing or shipping address), and is null
\* only when every source of the chain is absent.
C8_ContactChains ==
    \A k \in 1..Len(orders) :
        LET order == orders[k].raw_order IN
        /\ orders[k].customer_email = ClaimedEmail(order)
        /\ orders[k].customer_phone = ClaimedPhone(order)
        /\ orders[k].customer_phone = None =>
               /\ ~Truthy(order.customer.phone) /\ ~Truthy(order.phone)
               /\ ~Truthy(order.billing_address.phone)
               /\ ~Truthy(order.shipping_address.phone)

(***************************************************************************)
(* Properties of the stored amounts                                        *)
(***************************************************************************)
\* worker p has written the order row of req[p] and inserts, or has inserted,
\* its items: item row j of the order comes from line item j of req[p]
Writing(p) == pc[p] = "insert" \/ (pc[p] = "idle" /\ result[p] = "stored")

MyItems(p) == ItemsOf(order_items, order_id[p])

SourceShipping(order) ==
    IF order.shipping_lines = <<>> THEN 0 ELSE order.shipping_lines[1].price[1]

Answers(q, r, tbl) ==
    LET within == {k \in 1..Len(tbl) :
                     /\ TextLeq(q.from_date, tbl[k].voucher_date)
                     /\ TextLeq(tbl[k].voucher_date, q.to_date)}
    IN  /\ r.status = 200
        /\ Len(r.orders) = Cardinality(within)
        /\ \A k \in within :
               \E n \in 1..Len(r.orders) :
                  /\ r.orders[n].shopify_order_id = tbl[k].shopify_order_id
                  /\ r.orders[n].voucher_date = tbl[k].voucher_date
        /\ \A n \in 1..Len(r.orders) : \A m \in n..Len(r.orders) :
               TextLeq(r.orders[n].voucher_date, r.orders[m].voucher_date)

\* C11: a query of POST /tally/orders that names both dates is answered, in
\* one response, with one voucher for every stored order whose voucher date
\* d satisfies from_date <= d <= to_date and with no other voucher, in
\* ascending order of voucher date.
C11_RangeQuery ==
    [][(tally_response' # tally_response \/ tally_query' # tally_query)
          /\ Truthy(tally_query'.from_date) /\ Truthy(tally_query'.to_date)
       => Answers(tally_query', tally_response', orders)]_vars

\* C11 witness: the range from Day5 to Day7 was queried while the table held
\* an order of Day7 before one of Day5; the answer has both, Day5 first.
C11_Witness ==
    /\ tally_query = [from_date |-> Day5, to_date |-> Day7]
    /\ Len(orders) = 2
    /\ orders[1].voucher_date = Day7 /\ orders[2].voucher_date = Day5
    /\ Len(tally_response.orders) = 2
    /\ tally_response.orders[1].shopify_order_id = orders[2].shopify_order_id
    /\ tally_response.orders[2].shopify_order_id = orders[1].shopify_order_id

\* a push has been handled
Pushed == sales_result.status # 0

\* the pushed voucher has a customer block whose name is a text or absent,
\* and every item of it carries a quantity and a rate
WellFormed(data) ==
    /\ data.customer # <<>>
    /\ data.customer[1].name # <<None>>
    /\ \A j \in 1..Len(Get(data.items, <<>>)) :
           /\ Get(data.items, <<>>)[j].quantity # <<>>
           /\ Get(data.items, <<>>)[j].rate # <<>>

\* the push failed, its error carrying the given text
FailedWith(text) == sales_result.status >= 400 /\ sales_result.detail = text

\* the push succeeded and returned the given order id
Returned(id) == sales_result.status = 200 /\ sales_result.shopify_order_id = id

\* C12 as claimed: a push of a well-formed voucher makes exactly one
\* order-creation call; it fails, carrying the storefront's body unchanged,
\* exactly when the storefront's status is not 2xx, and for every 2xx status
\* it returns the storefront-assigned order id.
C12_FailsUnless2xx ==
    Pushed /\ WellFormed(sales_data) =>
        /\ Len(sales_calls) = 1
        /\ LET answer == sales_calls[1].response
           IN  /\ FailedWith(answer.text) <=> answer.status \notin 200..299
               /\ answer.status \in 200..299 => Returned(answer.id)

\* C12 amended: a push of a well-formed voucher makes exactly one
\* order-creation call; it fails, carrying the storefront's body unchanged,
\* exactly when the storefront's status is neither 200 nor 201 (so for every
\* status that is not 2xx, and for the other 2xx statuses too), and for 200
\* and 201 it returns the storefront-assigned order id.
C12_FailsUnlessOk ==
    Pushed /\ WellFormed(sales_data) =>
        /\ Len(sales_calls) = 1
        /\ LET answer == sales_calls[1].response
           IN  /\ FailedWith(answer.text) <=> answer.status \notin {200, 201}
               /\ answer.status \in {200, 201} => Returned(answer.id)
               /\ answer.status \notin 200..299 => FailedWith(answer.text)

\* C12 witness: the storefront answered 202 with "body B" to the one call of
\* a well-formed push, which failed with that body.
C12_Witness ==
    /\ Pushed /\ WellFormed(sales_data)
    /\ Len(sales_calls) = 1
    /\ sales_calls[1].response.status = 202
    /\ sales_calls[1].response.text = "body B"
    /\ FailedWith("body B")

\* the pushed voucher lacks a required field: the customer block, the
\* quantity or the rate of an item; or it has no item
LacksField(data) ==
    \/ data.customer = <<>>
    \/ Get(data.items, <<>>) = <<>>
    \/ \E j \in 1..Len(Get(data.items, <<>>)) :
           \/ Get(data.items, <<>>)[j].quantity = <<>>
           \/ Get(data.items, <<>>)[j].rate = <<>>

\* C13: a pushed voucher that lacks a required field, or whose item list is
\* empty, is rejected with a 4xx response and no call to the storefront.
C13_MalformedRejected ==
    Pushed /\ LacksField(sales_data) =>
        /\ sales_result.status \in 400..499
        /\ sales_calls = <<>>

\* the longest prefix of s without whitespace
RECURSIVE UntilSpace(_)
UntilSpace(s) ==
    IF s = <<>> \/ IsSpace(Head(s)) THEN <<>> ELSE <<Head(s)>> \o UntilSpace(Tail(s))

\* C14: the name of a pushed voucher is split at its first whitespace
\* boundary: the first name is the text before the first run of whitespace,
\* the last name the text after that run, without leading whitespace; a name
\* without whitespace is the first name, the last name being empty.
C14_SplitAtWhitespace ==
    sales_calls # <<>> =>
        LET name == Strip(Get(sales_data.customer[1].name, <<>>))
            customer == sales_calls[1].payload.order.customer
        IN  /\ customer.first_name = UntilSpace(name)
            /\ customer.last_name
                   = LStrip(SubSeq(name, Len(UntilSpace(name)) + 1, Len(name)))

\* C15: a voucher returned by POST /tally/orders and sent unchanged to POST
\* /tally/sales submits one storefront order with payment status "paid"
\* whose line items match the voucher's items one to one, in order, in
\* title, quantity and unit price.
C15_RoundTrip ==
    [][<<sales_data, sales_calls, sales_result>>' # <<sales_data, sales_calls, sales_result>>
       => \E n \in DOMAIN tally_response.orders :
             LET voucher == tally_response.orders[n]
                 posted == sales_calls'[1].payload.order
             IN  /\ sales_data' = AsRequest(voucher)
                 /\ Len(sales_calls') = 1
                 /\ posted.financial_status = "paid"
                 /\ Len(posted.line_items) = Len(voucher.items)
                 /\ \A j \in 1..Len(voucher.items) :
                        /\ posted.line_items[j].title = <<voucher.items[j].item_name>>
                        /\ posted.line_items[j].quantity = voucher.items[j].quantity
                        /\ posted.line_items[j].price = voucher.items[j].rate]_vars

\* C15 witness: the voucher of an order of two Shirts and a Cap was pushed;
\* the storefront got the Shirt at quantity 2 and unit price 21.19 before
\* the Cap, and its order id was returned.
C15_Witness ==
    /\ Returned(9001)
    /\ Len(sales_calls) = 1
    /\ Len(sales_calls[1].payload.order.line_items) = 2
    /\ sales_calls[1].payload.order.line_items[1]
           = [title |-> <<"Shirt">>, quantity |-> 2, price |-> 21190]
    /\ sales_calls[1].payload.order.line_items[2].title = <<"Cap">>

\* C16: a query of POST /tally/orders made while a delivery for an order is
\* in progress never returns that order with an empty or partial item set:
\* every voucher of an answer carries all the items of one delivery of its
\* order.
C16_NoPartialRead ==
    \A n \in DOMAIN tally_response.orders :
        LET voucher == tally_response.orders[n]
        IN  \E d \in TallyDocs :
               /\ d.id = voucher.shopify_order_id
               /\ voucher.items
                      = [j \in 1..Len(d.line_items) |->
                            VoucherItem(ItemRow(d, 0, d.line_items[j]))]

(***************************************************************************)
(* Stored money fields and frame of a delivery                             *)
(***************************************************************************)
\* C17: for every stored line item the tax-inclusive amount equals
\* amount_ex_gst + cgst + sgst + igst, whatever tax lines the source line
\* item carries.
C17_AmountIsSumOfParts ==
    \A k \in 1..Len(order_items) :
        order_items[k].amount
            = order_items[k].amount_ex_gst + order_items[k].cgst
                  + order_items[k].sgst + order_items[k].igst

\* what is stored for source id sid: its order rows, each with its items
StoredOf(tbl, itbl, sid) ==
    {[order |-> tbl[k], items |-> ItemsOf(itbl, k)] : k \in RowsOf(tbl, sid)}

\* worker p takes a step of its delivery
Moved(p) ==
    <<pc[p], li_idx[p], req[p], order_id[p], result[p]>>'
        # <<pc[p], li_idx[p], req[p], order_id[p], result[p]>>

\* C18: every step of a delivery for source order id A leaves the order
\* record and the items of every stored order with another source id
\* unchanged, also when deliveries for the two ids interleave.
C18_OtherOrdersUnchanged ==
    [][\A p \in Procs :
          Moved(p) =>
              \A sid \in OrderIds \ {req'[p].id} :
                  StoredOf(orders', order_items', sid) = StoredOf(orders, order_items, sid)]_vars

\* C18 witness: two workers are both at the item inserts of deliveries for
\* different source ids, one having stored its first item, the other none.
C18_Witness ==
    /\ pc[1] = "insert" /\ pc[2] = "insert"
    /\ req[1].id # req[2].id
    /\ order_id[1] # order_id[2]
    /\ li_idx[1] > 1
    /\ ItemsOf(order_items, order_id[1]) # <<>>
    /\ ItemsOf(order_items, order_id[2]) = <<>>

====
